---- MODULE Spec2Model ----
(***************************************************************************)
(* Model of rest_framework_filters/filterset.py: the FilterSet metaclass   *)
(* (expand_auto_filters), get_param_filter_name, get_filter_subset,        *)
(* disable_subset, the construction of the tree of nested FilterSet        *)
(* instances, get_request_filters, filter_related_filtersets and the       *)
(* Form.clean error re-keying.                                             *)
(*                                                                         *)
(* Strings are sequences of code points, so that startswith, slicing,      *)
(* str.replace and the code-point order used by sorted() are computed as   *)
(* Python computes them.  None and '' are both the empty sequence where    *)
(* the code only tests truthiness (relationship, rel).                     *)
(***************************************************************************)
EXTENDS Integers, Sequences, FiniteSets, TLC

VARIABLES
    \* get_param_filter_name called on its own (SpecResolve)
    cls, param, rel, filter_name,
    \* one request: FilterSet(data) and what is done with the instance (SpecBuild)
    schema, data, filtersets, stack, invalid, form_errors, queryset,
    \* FilterSet.disable_subset on the classes of a program (SpecDisable)
    classes, returned,
    \* FilterSetMetaclass.__new__ on one class body (SpecExpand)
    declared_filters, base_filters,
    \* position of the running specification
    pc

vars == <<cls, param, rel, filter_name, schema, data, filtersets, stack,
          invalid, form_errors, queryset, classes, returned, declared_filters,
          base_filters, pc>>

resolveVars == <<cls, param, rel, filter_name>>
buildVars   == <<schema, data, filtersets, stack, invalid, form_errors, queryset>>
disableVars == <<classes, returned>>
expandVars  == <<declared_filters, base_filters>>

-----------------------------------------------------------------------------
(* Strings *)

\* '!' , the exclusion marker of filterset.py:185 and :207
Bang == 33
\* django.db.models.constants.LOOKUP_SEP, imported at filterset.py:5: '__'
LOOKUP_SEP == <<95, 95>>

str_a == <<97>>
str_b == <<98>>
str_f == <<102>>
str_ab == <<97, 98>>
str_a_b == <<97, 95, 98>>
str_a__b == <<97, 95, 95, 98>>
str_note == <<110, 111, 116, 101>>
str_author == <<97, 117, 116, 104, 111, 114>>
str_title == <<116, 105, 116, 108, 101>>
str_in == <<105, 110>>

\* str.startswith
StartsWith(s, prefix) ==
    /\ Len(prefix) <= Len(s)
    /\ SubSeq(s, 1, Len(prefix)) = prefix

\* str.endswith
EndsWith(s, suffix) ==
    /\ Len(suffix) <= Len(s)
    /\ SubSeq(s, Len(s) - Len(suffix) + 1, Len(s)) = suffix

\* s[n:]
Drop(s, n) == SubSeq(s, n + 1, Len(s))

\* s[:-1]
Front(s) == SubSeq(s, 1, Len(s) - 1)

\* Python's order on str: lexicographic by code point, a proper prefix first
RECURSIVE StrLess(_, _)
StrLess(s, t) ==
    IF t = <<>> THEN FALSE
    ELSE IF s = <<>> THEN TRUE
    ELSE IF Head(s) = Head(t) THEN StrLess(Tail(s), Tail(t))
    ELSE Head(s) < Head(t)

\* sorted(names)
RECURSIVE Sorted(_)
Sorted(names) ==
    IF names = {} THEN <<>>
    ELSE LET least == CHOOSE x \in names : \A y \in names : x = y \/ StrLess(x, y)
         IN  <<least>> \o Sorted(names \ {least})

\* reversed(seq)
Reversed(seq) == [i \in 1..Len(seq) |-> seq[Len(seq) + 1 - i]]

\* LOOKUP_SEP.join(parts)
RECURSIVE Join(_)
Join(parts) ==
    IF parts = <<>> THEN <<>>
    ELSE IF Len(parts) = 1 THEN parts[1]
    ELSE parts[1] \o LOOKUP_SEP \o Join(Tail(parts))

\* ''.join(pieces)
RECURSIVE Concat(_)
Concat(pieces) ==
    IF pieces = <<>> THEN <<>> ELSE Head(pieces) \o Concat(Tail(pieces))

\* related(filterset, filter_name), on the filterset's relationship
related(relationship, name) ==
    IF relationship = <<>> THEN name
    ELSE Join(<<relationship, name>>)

-----------------------------------------------------------------------------
(* Filters and schema classes *)

\* a Filter declaration: kind is "filter", "auto" or "related"; filterset is the
\* class a RelatedFilter refers to (0 for the other kinds)
Filter(kind, field_name, exclude, filterset) ==
    [kind |-> kind, field_name |-> field_name, exclude |-> exclude,
     filterset |-> filterset]

\* what get_param_filter_name gives: a filter name, None, or an exception
Name(n) == [tag |-> "name", name |-> n]
None == [tag |-> "none", name |-> <<>>]
IndexError == [tag |-> "IndexError", name |-> <<>>]

\* reversed(sorted(cls.related_filters)) of filterset.py:190
RelatedOrderAscending(c) == Sorted(c.related_filters)
RelatedOrder(c) == Reversed(Sorted(c.related_filters))

\* the for loop of filterset.py:190-194: the first name in order whose
\* name + LOOKUP_SEP starts p; falling off the end returns None
RECURSIVE MatchRelated(_, _)
MatchRelated(order, p) ==
    IF order = <<>> THEN None
    ELSE IF StartsWith(p, Head(order) \o LOOKUP_SEP) THEN Name(Head(order))
    ELSE MatchRelated(Tail(order), p)

\* the parameter after filterset.py:176-178
StripRel(p, r) ==
    LET prefix == r \o LOOKUP_SEP
    IN  IF r # <<>> /\ StartsWith(p, prefix) THEN Drop(p, Len(prefix)) ELSE p

\* FilterSet.get_param_filter_name(param, rel)
GetParamFilterName(c, p, r) ==
    LET q == StripRel(p, r)
    IN  IF q \in DOMAIN c.base_filters THEN Name(q)
        ELSE IF q = <<>> THEN IndexError          \* param[-1] of ''
        ELSE IF q[Len(q)] = Bang /\ Front(q) \in DOMAIN c.base_filters
             THEN Name(Front(q))
        ELSE MatchRelated(RelatedOrder(c), q)

-----------------------------------------------------------------------------
(* SpecResolve: get_param_filter_name on one class, parameter and rel *)

\* the longest request parameter, in pieces
MaxPieces == 4

\* what request parameters are made of: letters, '_', LOOKUP_SEP and '!'
Pieces == {str_a, str_b, <<95>>, LOOKUP_SEP, <<Bang>>}

\* every parameter name of at most MaxPieces pieces, '' included
Params == {Concat(ps) : ps \in UNION {[1..n -> Pieces] : n \in 0..MaxPieces}}

\* the names a RelatedFilter may be declared under
RelatedNamePool == {str_a, str_ab, str_a_b, str_a__b}

\* a schema class with the given plain and RelatedFilter names; as after
\* FilterSetMetaclass.__new__ (filterset.py:28-30) related_filters names the
\* RelatedFilters among the declared filters, all of them in base_filters
SchemaClass(plain, related_names) ==
    [base_filters |->
        [n \in plain \cup related_names |->
            IF n \in related_names THEN Filter("related", n, FALSE, 1)
            ELSE Filter("filter", n, FALSE, 0)],
     related_filters |-> related_names]

NoClass == SchemaClass({}, {})

ResolveClasses ==
    {SchemaClass(plain, rs) : plain \in SUBSET {str_b}, rs \in SUBSET RelatedNamePool}

\* the relationship prefixes tried
ResolveRels == {<<>>, str_a, str_a__b}

str_note_author == str_note \o <<95>> \o str_author
str_note__author == Join(<<str_note, str_author>>)

\* the two schemas and parameters of the comment at filterset.py:189
ExampleCalls ==
    {<<SchemaClass({}, {str_note, str_note_author}), Join(<<str_note_author, str_title>>)>>,
     <<SchemaClass({}, {str_note, str_note__author}), Join(<<str_note__author, str_title>>)>>}

ResolveIdle ==
    /\ cls = NoClass
    /\ param = <<>>
    /\ rel = <<>>
    /\ filter_name = None

\* the state before a call of get_param_filter_name
ResolveInit ==
    /\ \/ /\ cls \in ResolveClasses
          /\ param \in Params
          /\ rel \in ResolveRels
       \/ /\ \E call \in ExampleCalls : cls = call[1] /\ param = call[2]
          /\ rel = <<>>
    /\ filter_name = None
    /\ pc = "resolve"

\* cls.get_param_filter_name(param, rel)
CallGetParamFilterName ==
    /\ pc = "resolve"
    /\ filter_name' = GetParamFilterName(cls, param, rel)
    /\ pc' = "resolved"
    /\ UNCHANGED <<cls, param, rel>>
    /\ UNCHANGED <<buildVars, disableVars, expandVars>>

-----------------------------------------------------------------------------
(* C5, C6 *)

\* the relational filter names n with n + LOOKUP_SEP a prefix of q
Candidates(c, q) == {n \in c.related_filters : StartsWith(q, n \o LOOKUP_SEP)}

\* neither an exact filter name nor a negated filter name
FallsToRelated(c, q) ==
    /\ q \notin DOMAIN c.base_filters
    /\ q # <<>>
    /\ ~(q[Len(q)] = Bang /\ Front(q) \in DOMAIN c.base_filters)

\* C5: a parameter that, after prefix stripping, is neither an exact nor a
\* negated filter name resolves to the longest relational filter name n with
\* n + LOOKUP_SEP a prefix of it; with relational filters note and note_author,
\* note_author__title resolves to note_author, and with note and note__author,
\* note__author__title resolves to note__author.
C5_LongestRelatedName ==
    pc = "resolved" =>
        LET q == StripRel(param, rel)
            cands == Candidates(cls, q)
        IN  /\ (FallsToRelated(cls, q) /\ cands # {}) =>
                 /\ filter_name.tag = "name"
                 /\ filter_name.name \in cands
                 /\ \A n \in cands : Len(n) <= Len(filter_name.name)
            /\ (cls.related_filters = {str_note, str_note_author}
                   /\ param = Join(<<str_note_author, str_title>>))
                 => filter_name = Name(str_note_author)
            /\ (cls.related_filters = {str_note, str_note__author}
                   /\ param = Join(<<str_note__author, str_title>>))
                 => filter_name = Name(str_note__author)

\* two relational names compete for one parameter and the longer one won
C5_Witness ==
    /\ pc = "resolved"
    /\ FallsToRelated(cls, StripRel(param, rel))
    /\ Cardinality(Candidates(cls, StripRel(param, rel))) >= 2
    /\ filter_name = Name(str_a__b)

\* C6: for every parameter name and relationship prefix, get_param_filter_name
\* returns a declared filter name or None and never raises.
C6_NeverRaises ==
    pc = "resolved" =>
        \/ filter_name = None
        \/ filter_name.tag = "name" /\ filter_name.name \in DOMAIN cls.base_filters

-----------------------------------------------------------------------------
(* SpecBuild: one request against a schema graph *)

\* the most LOOKUP_SEP-separated segments of a request parameter
MaxSegs == 3
\* the most parameters of a request
MaxData == 1
\* the most fields of the request that fail validation
MaxInvalid == 1

\* the schema classes of the program; class 1 is the one the view uses
ClassIds == {1, 2}

\* class 1: f, RelatedFilter a -> class a_to, and perhaps RelatedFilter a__b -> 2
\* class 2: f (declared with exclude = f_exclude), perhaps RelatedFilter b -> b_to
SchemaGraph(a_to, has_a__b, b_to, f_exclude) ==
    LET names1 == {str_f, str_a} \cup (IF has_a__b THEN {str_a__b} ELSE {})
        names2 == {str_f} \cup (IF b_to # 0 THEN {str_b} ELSE {})
    IN  (1 :> [base_filters |->
                  [n \in names1 |->
                      IF n = str_f THEN Filter("filter", n, FALSE, 0)
                      ELSE IF n = str_a THEN Filter("related", n, FALSE, a_to)
                      ELSE Filter("related", n, FALSE, 2)],
               related_filters |-> names1 \ {str_f}])
        @@
        (2 :> [base_filters |->
                  [n \in names2 |->
                      IF n = str_f THEN Filter("filter", n, f_exclude, 0)
                      ELSE Filter("related", n, FALSE, b_to)],
               related_filters |-> names2 \ {str_f}])

SchemaGraphs ==
    {SchemaGraph(a_to, has_a__b, b_to, TRUE) :
        a_to \in ClassIds, has_a__b \in BOOLEAN, b_to \in {0} \cup ClassIds}

\* request parameter names: up to MaxSegs segments joined by LOOKUP_SEP, with
\* or without a trailing '!'; and the two names that end where a segment
\* should begin, '' and 'a__'
SegmentLists ==
    UNION {{inner \o <<last>> : inner \in [1..(n - 1) -> {str_a, str_b}],
                                last \in {str_a, str_b, str_f}} :
           n \in 1..MaxSegs}

RequestParams ==
    {Join(segs) \o mark : segs \in SegmentLists, mark \in {<<>>, <<Bang>>}}
        \cup {<<>>, str_a \o LOOKUP_SEP}

\* the subsets of S of at most k elements
RECURSIVE SubsetsUpTo(_, _)
SubsetsUpTo(S, k) ==
    IF k = 0 THEN {{}}
    ELSE LET smaller == SubsetsUpTo(S, k - 1)
         IN  smaller \cup {d \cup {x} : d \in smaller, x \in S}

RequestData == SubsetsUpTo(RequestParams, MaxData)

\* FilterSet.get_filter_subset(params, rel): the entries of cls.base_filters
\* whose name some parameter resolves to; an exception of
\* get_param_filter_name propagates
GetFilterSubset(c, params, r) ==
    LET resolved == {GetParamFilterName(c, p, r) : p \in params}
        filter_names == {x.name : x \in {y \in resolved : y.tag = "name"}}
    IN  IF IndexError \in resolved
        THEN [tag |-> "IndexError", filters |-> <<>>]
        ELSE [tag |-> "ok",
              filters |-> [k \in {k \in DOMAIN c.base_filters : k \in filter_names}
                              |-> c.base_filters[k]]]

\* copy.deepcopy of a filter, bound to the instance at path (django_filters
\* sets filter_.parent in BaseFilterSet.__init__)
Bound(f, path) ==
    [kind |-> f.kind, field_name |-> f.field_name, exclude |-> f.exclude,
     filterset |-> f.filterset, parent |-> path]

\* the instance after filterset.py:88-92, its related filtersets not built yet
NewInstance(class_id, path, relationship, subset) ==
    [cls |-> class_id,
     relationship |-> relationship,
     base_filters |-> subset,
     filters |-> [n \in DOMAIN subset |-> Bound(subset[n], path)],
     related_filtersets |-> {}]

\* the related names get_related_filtersets will build an instance for
\* (filterset.py:225-227)
ActiveRelated(inst) ==
    Sorted({n \in schema[inst.cls].related_filters : n \in DOMAIN inst.filters})

\* FilterSet.get_request_filters: the filters plus, for each one whose
\* related(self, name + '!') is in the data, a negated copy under name + '!'
GetRequestFiltersUnqualified(inst, params) ==
    LET excluded == {n \in DOMAIN inst.filters : (n \o <<Bang>>) \in params}
    IN  [k \in DOMAIN inst.filters \cup {n \o <<Bang>> : n \in excluded} |->
            IF k \in DOMAIN inst.filters THEN inst.filters[k]
            ELSE LET f == inst.filters[Front(k)]
                     f_copy == inst.base_filters[Front(k)]
                 IN  [Bound(f_copy, f.parent) EXCEPT !.exclude = ~f.exclude]]

GetRequestFilters(inst, params) ==
    LET excluded == {n \in DOMAIN inst.filters :
                        related(inst.relationship, n \o <<Bang>>) \in params}
    IN  [k \in DOMAIN inst.filters \cup {n \o <<Bang>> : n \in excluded} |->
            IF k \in DOMAIN inst.filters THEN inst.filters[k]
            ELSE LET f == inst.filters[Front(k)]
                     f_copy == inst.base_filters[Front(k)]
                 IN  [Bound(f_copy, f.parent) EXCEPT !.exclude = ~f.exclude]]

\* no request parameter lies under the relationship prefix
NothingUnder(relationship) ==
    \A p \in data : ~StartsWith(p, relationship \o LOOKUP_SEP)

\* the constructor about to run builds what a constructor still on the stack
\* is building: neither relationship is a prefix of any parameter, so
\* get_param_filter_name strips nothing in either and both select the same
\* filters of the same class.  The recursion of filterset.py:93, :230 then
\* never returns: Python ends it with RecursionError.
Repeats(class_id, relationship) ==
    /\ NothingUnder(relationship)
    /\ \E i \in 1..Len(stack) :
          /\ filtersets[stack[i].path].cls = class_id
          /\ NothingUnder(filtersets[stack[i].path].relationship)
          /\ stack[i].path # <<>>

BuildInit ==
    /\ schema \in SchemaGraphs
    /\ data \in RequestData
    /\ filtersets = <<>>
    /\ stack = <<>>
    /\ invalid = {}
    /\ form_errors = <<>>
    /\ queryset = <<>>
    /\ pc = "request"

\* FilterSet(data): filterset.py:88-92 of the root instance
NewFilterSet ==
    /\ pc = "request"
    /\ LET subset == GetFilterSubset(schema[1], data, <<>>)
           inst == NewInstance(1, <<>>, <<>>, subset.filters)
       IN  IF subset.tag = "IndexError"
           THEN /\ pc' = "IndexError"
                /\ UNCHANGED <<filtersets, stack>>
           ELSE /\ filtersets' = (<<>> :> inst)
                /\ stack' = <<[path |-> <<>>, todo |-> ActiveRelated(inst)]>>
                /\ pc' = "init"
    /\ UNCHANGED <<schema, data, invalid, form_errors, queryset>>
    /\ UNCHANGED <<resolveVars, disableVars, expandVars>>

\* get_related_filtersets reaches the next active related filter and calls
\* f.filterset(data=self.data, relationship=related(self, related_name))
NestedFilterSet ==
    /\ pc = "init"
    /\ stack # <<>>
    /\ LET top == stack[Len(stack)]
           self == filtersets[top.path]
       IN  /\ top.todo # <<>>
           /\ LET related_name == Head(top.todo)
                  f == self.filters[related_name]
                  path == top.path \o <<related_name>>
                  relationship == related(self.relationship, related_name)
                  subset == GetFilterSubset(schema[f.filterset], data, relationship)
                  inst == NewInstance(f.filterset, path, relationship, subset.filters)
              IN  IF subset.tag = "IndexError"
                  THEN /\ pc' = "IndexError"
                       /\ UNCHANGED <<filtersets, stack>>
                  ELSE IF Repeats(f.filterset, relationship)
                  THEN /\ pc' = "RecursionError"
                       /\ UNCHANGED <<filtersets, stack>>
                  ELSE /\ filtersets' = (path :> inst) @@ filtersets
                       /\ stack' = [stack EXCEPT ![Len(stack)].todo = Tail(top.todo)]
                                     \o <<[path |-> path, todo |-> ActiveRelated(inst)]>>
                       /\ pc' = "init"
    /\ UNCHANGED <<schema, data, invalid, form_errors, queryset>>
    /\ UNCHANGED <<resolveVars, disableVars, expandVars>>

\* get_related_filtersets is through: filterset.py:94, and the constructor
\* returns into the parent's related_filtersets[related_name] (or to the view)
ReturnFilterSet ==
    /\ pc = "init"
    /\ stack # <<>>
    /\ LET top == stack[Len(stack)]
           self == filtersets[top.path]
           done == [self EXCEPT !.filters = GetRequestFilters(self, data)]
       IN  /\ top.todo = <<>>
           /\ stack' = SubSeq(stack, 1, Len(stack) - 1)
           /\ IF top.path = <<>>
              THEN /\ filtersets' = [filtersets EXCEPT ![top.path] = done]
                   /\ pc' = "built"
              ELSE LET parent == SubSeq(top.path, 1, Len(top.path) - 1)
                       related_name == top.path[Len(top.path)]
                   IN  /\ filtersets' =
                             [filtersets EXCEPT
                                 ![top.path] = done,
                                 ![parent].related_filtersets = @ \cup {related_name}]
                       /\ pc' = "init"
    /\ UNCHANGED <<schema, data, invalid, form_errors, queryset>>
    /\ UNCHANGED <<resolveVars, disableVars, expandVars>>

\* the parent of a nested instance
Parent(path) == SubSeq(path, 1, Len(path) - 1)

\* the form fields of the tree: one per filter of each instance
\* (django_filters builds the form from self.filters)
FormFields ==
    UNION {{<<path, n>> : n \in DOMAIN filtersets[path].filters} :
           path \in DOMAIN filtersets}

\* self.form.errors after Form.clean (filterset.py:270-279): the instance's own
\* invalid fields, keyed by field name, and every key of each related
\* filterset's errors under related(related_filterset, key)
RECURSIVE FormErrors(_, _)
FormErrors(path, bad) ==
    LET self == filtersets[path]
    IN  {n \in DOMAIN self.filters : <<path, n>> \in bad}
        \cup UNION {{related(filtersets[path \o <<r>>].relationship, key) :
                        key \in FormErrors(path \o <<r>>, bad)} :
                    r \in self.related_filtersets}

\* the view validates the bound form: form.errors runs full_clean and
\* Form.clean on the root, which reads every related filterset's form.errors
Clean ==
    /\ pc = "built"
    /\ \E bad \in SubsetsUpTo(FormFields, MaxInvalid) :
          /\ invalid' = bad
          /\ form_errors' = [path \in DOMAIN filtersets |-> FormErrors(path, bad)]
    /\ pc' = "cleaned"
    /\ UNCHANGED <<schema, data, filtersets, stack, queryset>>
    /\ UNCHANGED <<resolveVars, disableVars, expandVars>>

\* the containment constraint of filterset.py:257-260 for one related filterset
Containment(self, path, related_name) ==
    [lookup_expr |-> Join(<<self.filters[related_name].field_name, str_in>>),
     subquery |-> path \o <<related_name>>]

\* FilterSet.filter_related_filtersets(queryset); a queryset is the set of
\* containment constraints put on it
FilterRelatedFiltersetsAlways(path, qs) ==
    LET self == filtersets[path]
    IN  qs \cup {Containment(self, path, r) : r \in self.related_filtersets}

FilterRelatedFiltersets(path, qs) ==
    LET self == filtersets[path]
        with_data == {r \in self.related_filtersets :
                         \E value \in data :
                             StartsWith(value, related(self.relationship, r) \o LOOKUP_SEP)}
    IN  qs \cup {Containment(self, path, r) : r \in with_data}

\* the instances whose filter_queryset runs: the root, and a related
\* filterset when its parent's does and takes related_filterset.qs
RECURSIVE Filtered(_)
Filtered(path) ==
    \/ path = <<>>
    \/ /\ Filtered(Parent(path))
       /\ \E c \in FilterRelatedFiltersets(Parent(path), {}) : c.subquery = path

\* filterset.qs: filter_queryset on the root (filterset.py:240-243)
FilterQueryset ==
    /\ pc = "cleaned"
    /\ queryset' = [path \in {q \in DOMAIN filtersets : Filtered(q)} |->
                       FilterRelatedFiltersets(path, {})]
    /\ pc' = "filtered"
    /\ UNCHANGED <<schema, data, filtersets, stack, invalid, form_errors>>
    /\ UNCHANGED <<resolveVars, disableVars, expandVars>>

-----------------------------------------------------------------------------
(* C1, C2, C3, C4, C7, C10 *)

\* the instances whose constructor has returned
Constructed ==
    {path \in DOMAIN filtersets : \A i \in 1..Len(stack) : stack[i].path # path}

\* the filter names the request parameters resolve to, for an instance
ResolvedNames(inst) ==
    LET resolved == {GetParamFilterName(schema[inst.cls], p, inst.relationship) : p \in data}
    IN  {x.name : x \in {y \in resolved : y.tag = "name"}}

\* C1: for every schema, parameter set P and prefix rel, get_filter_subset(P, rel)
\* returns a mapping whose keys are exactly the names the parameters resolve
\* to, None left out, each entry being the full schema's own entry.
C1_SubsetIsResolvedNames ==
    /\ pc # "IndexError"
    /\ \A path \in DOMAIN filtersets :
          LET inst == filtersets[path]
          IN  /\ DOMAIN inst.base_filters = ResolvedNames(inst)
              /\ \A k \in DOMAIN inst.base_filters :
                    inst.base_filters[k] = schema[inst.cls].base_filters[k]

\* C2: building the tree of nested instances terminates for every request and
\* every schema graph, cyclic ones included.
C2_ConstructionTerminates == pc # "RecursionError"

\* C3: for every instance and active filter f, the request filters hold an
\* entry f.name + '!' exactly when the rel-qualified f.name + '!' is in the data;
\* it is f with the exclusion flag negated; the entry under f.name is kept as it
\* was, and the schema's declarations are as declared.
C3_ExclusionEntries ==
    /\ schema \in SchemaGraphs
    /\ \A path \in Constructed :
          LET inst == filtersets[path]
              negated == {n \o <<Bang>> : n \in DOMAIN inst.base_filters}
          IN  /\ DOMAIN inst.filters \subseteq DOMAIN inst.base_filters \cup negated
              /\ \A n \in DOMAIN inst.base_filters :
                    LET exclude_name == n \o <<Bang>>
                    IN  /\ n \in DOMAIN inst.filters
                        /\ inst.filters[n] = Bound(schema[inst.cls].base_filters[n], path)
                        /\ (exclude_name \in DOMAIN inst.filters)
                              <=> (related(inst.relationship, exclude_name) \in data)
                        /\ exclude_name \in DOMAIN inst.filters =>
                              inst.filters[exclude_name] =
                                 [inst.filters[n] EXCEPT !.exclude = ~inst.filters[n].exclude]

\* a nested instance holds f (declared with exclude set) and its negation f!,
\* asked for by a__f!
C3_Witness ==
    /\ pc = "built"
    /\ (Join(<<str_a, str_f>>) \o <<Bang>>) \in data
    /\ <<str_a>> \in Constructed
    /\ filtersets[<<str_a>>].cls = 2
    /\ (str_f \o <<Bang>>) \in DOMAIN filtersets[<<str_a>>].filters
    /\ filtersets[<<str_a>>].filters[str_f].exclude
    /\ ~filtersets[<<str_a>>].filters[str_f \o <<Bang>>].exclude

\* some request parameter lies under related(self, related_name)
HasDataUnder(inst, related_name) ==
    \E value \in data :
        StartsWith(value, related(inst.relationship, related_name) \o LOOKUP_SEP)

\* C4 as stated: every relational filter r of an instance adds its containment
\* constraint exactly when some raw parameter begins with the rel-qualified
\* r.name + LOOKUP_SEP.
C4_EveryRelatedFilter ==
    pc = "filtered" =>
        \A path \in DOMAIN queryset :
            LET inst == filtersets[path]
            IN  \A r \in schema[inst.cls].related_filters :
                    (\E c \in queryset[path] : c.subquery = path \o <<r>>)
                        <=> HasDataUnder(inst, r)

\* C4 amended: a relational filter r that has a nested instance adds its
\* containment constraint (r's field path __in the nested instance's result)
\* exactly when some raw parameter begins with the rel-qualified
\* r.name + LOOKUP_SEP; nothing else is put on the collection.
C4_ActiveRelatedFilter ==
    pc = "filtered" =>
        \A path \in DOMAIN queryset :
            LET inst == filtersets[path]
            IN  queryset[path] =
                    {Containment(inst, path, r) :
                        r \in {x \in inst.related_filtersets : HasDataUnder(inst, x)}}

\* a__b alone: the root adds the constraint for a, which has the parameter
\* under it, and the instance for a adds none for its b, which has nothing
\* under a__b
C4_Witness ==
    /\ pc = "filtered"
    /\ filtersets[<<>>].related_filtersets = {str_a}
    /\ queryset[<<>>] = {Containment(filtersets[<<>>], <<>>, str_a)}
    /\ filtersets[<<str_a>>].related_filtersets = {str_b}
    /\ ~HasDataUnder(filtersets[<<str_a>>], str_b)
    /\ queryset[<<str_a>>] = {}

\* C7: an error of field `field` in the instance reached through a then b is
\* keyed a__b__field in the root's form errors and b__field in the errors of
\* the instance for a.
C7_ErrorKeys ==
    pc \in {"cleaned", "filtered"} =>
        \A bad \in invalid :
            Len(bad[1]) = 2 =>
                /\ Join(<<bad[1][1], bad[1][2], bad[2]>>) \in form_errors[<<>>]
                /\ Join(<<bad[1][2], bad[2]>>) \in form_errors[<<bad[1][1]>>]

\* C10: a nested instance with no request parameter under its relationship
\* prefix has an empty active subset and builds no nested instances.
C10_EmptyWithoutParameters ==
    \A path \in DOMAIN filtersets :
        LET inst == filtersets[path]
        IN  (path # <<>> /\ NothingUnder(inst.relationship)) =>
                /\ DOMAIN inst.base_filters = {}
                /\ inst.related_filtersets = {}

-----------------------------------------------------------------------------
(* SpecDisable: FilterSet.disable_subset on the classes of a program *)

\* the most schema classes of the program, derived ones included
MaxClasses == 5
\* the deepest disable_subset(depth=...) called
MaxDisableDepth == 2

\* a class of the program: subset_disabled is issubclass(cls, SubsetDisabledMixin)
ProgramClass(c) ==
    [base_filters |-> c.base_filters,
     related_filters |-> c.related_filters,
     subset_disabled |-> FALSE]

\* type('SubsetDisabled%s' % cls.__name__, (SubsetDisabledMixin, cls), {}): the
\* metaclass builds base_filters anew from the inherited declarations, whose
\* filter objects the new mapping shares with cls
SubsetDisabledClass(c) == [c EXCEPT !.subset_disabled = TRUE]

\* FilterSet.disable_subset(depth) on class k of the registry: the registry
\* afterwards and the class returned.  DisableRelated is the for loop of
\* filterset.py:144-147 over the names left.
RECURSIVE DisableSubset(_, _, _), DisableRelated(_, _, _, _)
DisableSubset(registry, k, depth) ==
    LET derive == ~registry[k].subset_disabled
        reg == IF derive
               THEN Append(registry, SubsetDisabledClass(registry[k]))
               ELSE registry
        c == IF derive THEN Len(reg) ELSE k
    IN  IF depth > 0
        THEN [classes |-> DisableRelated(reg, c, Sorted(reg[c].related_filters), depth),
              cls |-> c]
        ELSE [classes |-> reg, cls |-> c]

DisableRelated(registry, c, names, depth) ==
    IF names = <<>> THEN registry
    ELSE LET name == Head(names)
             f == registry[c].base_filters[name]
             sub == DisableSubset(registry, f.filterset, depth - 1)
             f_copy == [f EXCEPT !.filterset = sub.cls]
         IN  DisableRelated(
                 [sub.classes EXCEPT ![c].base_filters[name] = f_copy],
                 c, Tail(names), depth)

\* cls.get_filter_subset(params, rel), by the class's method resolution:
\* SubsetDisabledMixin.get_filter_subset (filterset.py:80-82) comes first
ClassGetFilterSubset(c, params, r) ==
    IF c.subset_disabled
    THEN [tag |-> "ok", filters |-> c.base_filters]
    ELSE GetFilterSubset(c, params, r)

DisableInit ==
    /\ classes \in {[k \in ClassIds |-> ProgramClass(g[k])] : g \in SchemaGraphs}
    /\ returned = [op |-> "import", cls |-> 0, filters |-> <<>>]
    /\ pc = "classes"

\* some_class.disable_subset(depth=depth)
CallDisableSubset ==
    /\ pc = "classes"
    /\ \E k \in DOMAIN classes, depth \in 0..MaxDisableDepth :
          LET r == DisableSubset(classes, k, depth)
          IN  /\ Len(r.classes) <= MaxClasses
              /\ classes' = r.classes
              /\ returned' = [op |-> "disable_subset", cls |-> r.cls, filters |-> <<>>]
    /\ UNCHANGED pc
    /\ UNCHANGED <<resolveVars, buildVars, expandVars>>

\* some_class(data): filterset.py:88; the instance keeps the subset (or, with
\* the mixin, the class's own mapping) and deep-copies its filters
CallGetFilterSubset ==
    /\ pc = "classes"
    /\ \E k \in DOMAIN classes, params \in SubsetsUpTo({str_a, str_f, str_f \o <<Bang>>}, 1) :
          LET r == ClassGetFilterSubset(classes[k], params, <<>>)
          IN  returned' = [op |-> "get_filter_subset", cls |-> k, filters |-> r.filters]
    /\ UNCHANGED <<classes, pc>>
    /\ UNCHANGED <<resolveVars, buildVars, expandVars>>

-----------------------------------------------------------------------------
(* C8 *)

\* C8: whatever is called, and on whichever class (one that disable_subset
\* returned earlier included), the filter mapping of every class that existed
\* before the call, with the nested-schema reference of each of its
\* RelatedFilters, is as it was.
C8_ExistingClassesUnchanged ==
    [][\A k \in DOMAIN classes :
          /\ k \in DOMAIN classes'
          /\ classes'[k].base_filters = classes[k].base_filters]_vars

-----------------------------------------------------------------------------
(* SpecExpand: FilterSetMetaclass.__new__ on one class body with a model *)

\* the most filters declared in the class body
MaxDeclared == 2

str_id == <<105, 100>>
str_pk == <<112, 107>>
str_kid == <<107, 105, 100>>
str_exact == <<101, 120, 97, 99, 116>>
str_lt == <<108, 116>>

\* an OrderedDict is the sequence of its <<key, value>> items
Keys(od) == {od[i][1] : i \in 1..Len(od)}
Get(od, k) == od[CHOOSE i \in 1..Len(od) : od[i][1] = k][2]
\* od[k] = v: in place for a key it has, appended otherwise
Put(od, k, v) ==
    IF k \in Keys(od)
    THEN [i \in 1..Len(od) |-> IF od[i][1] = k THEN <<k, v>> ELSE od[i]]
    ELSE Append(od, <<k, v>>)
\* del od[k]
Del(od, k) == SelectSeq(od, LAMBDA item : item[1] # k)
\* od.update(other), and the same with each key rewritten first
RECURSIVE PutAll(_, _)
PutAll(od, items) ==
    IF items = <<>> THEN od
    ELSE PutAll(Put(od, items[1][1], items[1][2]), Tail(items))

\* a filter of the class body, or one filter_for_field generates
Declared(kind, field_name, lookups) ==
    [kind |-> kind, field_name |-> field_name, lookups |-> lookups, lookup_expr |-> str_exact]
Generated(field_name, lookup_expr) ==
    [kind |-> "generated", field_name |-> field_name, lookups |-> {}, lookup_expr |-> lookup_expr]

\* the first index at which old occurs in s, 0 if nowhere
FirstOccurrence(s, old) ==
    LET at == {i \in 1..(Len(s) - Len(old) + 1) : SubSeq(s, i, i + Len(old) - 1) = old}
    IN  IF at = {} THEN 0 ELSE CHOOSE i \in at : \A j \in at : i <= j

\* s.replace(old, new, 1), old not empty
ReplaceFirst(s, old, new) ==
    LET i == FirstOccurrence(s, old)
    IN  IF i = 0 THEN s
        ELSE SubSeq(s, 1, i - 1) \o new \o Drop(s, i + Len(old) - 1)

\* django_filters' FilterSet.get_filter_name: field__lookup, the default
\* lookup's suffix left off
GetFilterName(field_name, lookup_expr) ==
    LET gen_name == Join(<<field_name, lookup_expr>>)
        default == LOOKUP_SEP \o str_exact
    IN  IF EndsWith(gen_name, default)
        THEN SubSeq(gen_name, 1, Len(gen_name) - Len(default))
        ELSE gen_name

\* django_filters' FilterSet.get_filters for Meta.fields = {field_name: lookups}
\* (no field when field_name is <<>>): one filter per lookup, the declared one
\* where the name is declared, then every declared filter
RECURSIVE GeneratedItems(_, _, _)
GeneratedItems(field_name, lookups, declared) ==
    IF lookups = <<>> THEN <<>>
    ELSE LET gen_name == GetFilterName(field_name, Head(lookups))
             f == IF gen_name \in Keys(declared) THEN Get(declared, gen_name)
                  ELSE Generated(field_name, Head(lookups))
         IN  <<<<gen_name, f>>>> \o GeneratedItems(field_name, Tail(lookups), declared)

GetFilters(field_name, lookups, declared) ==
    PutAll(PutAll(<<>>, GeneratedItems(field_name, Sorted(lookups), declared)), declared)

\* new_class.auto_filters (filterset.py:25-27): RelatedFilter is an AutoFilter
AutoFilters(declared) ==
    SelectSeq([i \in 1..Len(declared) |-> declared[i][1]],
              LAMBDA n : Get(declared, n).kind \in {"auto", "related"})

\* the inner loop of filterset.py:66-70
RECURSIVE RenameInto(_, _, _, _)
RenameInto(base, items, field_name, name) ==
    IF items = <<>> THEN base
    ELSE LET gen_name == ReplaceFirst(items[1][1], field_name, name)
         IN  RenameInto(Put(base, gen_name, items[1][2]), Tail(items), field_name, name)

\* FilterSetMetaclass.expand_auto_filters: the loop of filterset.py:56-70 over
\* the auto filter names left, on the copy of declared_filters; gives base_filters
RECURSIVE ExpandAutoFilters(_, _, _)
ExpandAutoFilters(base, declared, names) ==
    IF names = <<>> THEN base
    ELSE LET name == Head(names)
             f == Get(declared, name)
             kept == IF f.kind # "related" THEN Del(declared, name) ELSE declared
             generated == GetFilters(f.field_name, f.lookups, kept)
         IN  ExpandAutoFilters(RenameInto(base, generated, f.field_name, name),
                               kept, Tail(names))

\* FilterSetMetaclass.__new__ (filterset.py:22-40) with Meta.model set and no
\* Meta.fields: the base metaclass leaves get_filters() in base_filters, then
\* the auto filters are expanded into it
MetaclassNew(declared) ==
    ExpandAutoFilters(GetFilters(<<>>, {}, declared), declared, AutoFilters(declared))

\* what a class body may declare
Declarations ==
    {<<n, Declared("auto", str_id, L)>> : n \in {str_id, str_pk}, L \in SUBSET {str_exact, str_lt}}
    \cup {<<str_kid, Declared("filter", str_kid, {})>>}
    \cup {<<str_a, Declared("related", str_a, L)>> : L \in SUBSET {str_exact}}

\* the class bodies: at most MaxDeclared declarations under different names
RECURSIVE ClassBodies(_)
ClassBodies(n) ==
    IF n = 0 THEN {<<>>}
    ELSE LET shorter == ClassBodies(n - 1)
         IN  shorter \cup {Append(body, d) : body \in shorter, d \in Declarations}

ExpandInit ==
    /\ declared_filters \in
          {body \in ClassBodies(MaxDeclared) : Cardinality(Keys(body)) = Len(body)}
    /\ base_filters = <<>>
    /\ pc = "class body"

\* the class statement runs the metaclass
NewClass ==
    /\ pc = "class body"
    /\ base_filters' = MetaclassNew(declared_filters)
    /\ pc' = "class"
    /\ UNCHANGED declared_filters
    /\ UNCHANGED <<resolveVars, buildVars, disableVars>>

-----------------------------------------------------------------------------
(* C9 *)

\* the names the expansion of AutoFilter name on field_name should leave
ExpansionNames(name, f) ==
    {ReplaceFirst(GetFilterName(f.field_name, l), f.field_name, name) : l \in f.lookups}

\* the AutoFilter declarations of the class body that are no RelatedFilter
PlainAutoFilters ==
    {i \in 1..Len(declared_filters) : declared_filters[i][2].kind = "auto"}

\* C9: a non-relational AutoFilter named n on field f with lookups L, L not
\* empty, leaves exactly |L| filters, named by putting n for the first f in
\* the generated name, and is itself no entry of the final mapping.
C9_AutoFilterExpanded ==
    pc = "class" =>
        \A i \in PlainAutoFilters :
            LET name == declared_filters[i][1]
                f == declared_filters[i][2]
                mine == {k \in Keys(base_filters) :
                            /\ Get(base_filters, k).field_name = f.field_name
                            /\ StartsWith(k, name)}
            IN  f.lookups # {} =>
                    /\ \A k \in Keys(base_filters) : Get(base_filters, k) # f
                    /\ mine = ExpansionNames(name, f)
                    /\ Cardinality(mine) = Cardinality(f.lookups)
                    /\ \A l \in f.lookups :
                          Get(base_filters,
                              ReplaceFirst(GetFilterName(f.field_name, l), f.field_name, name))
                            = Generated(f.field_name, l)

-----------------------------------------------------------------------------
BuildIdle ==
    /\ schema = <<>>
    /\ data = {}
    /\ filtersets = <<>>
    /\ stack = <<>>
    /\ invalid = {}
    /\ form_errors = <<>>
    /\ queryset = <<>>

DisableIdle ==
    /\ classes = <<>>
    /\ returned = [op |-> "import", cls |-> 0, filters |-> <<>>]

ExpandIdle ==
    /\ declared_filters = <<>>
    /\ base_filters = <<>>

SpecResolveInit == ResolveInit /\ BuildIdle /\ DisableIdle /\ ExpandIdle

SpecResolveNext == CallGetParamFilterName

SpecResolve == SpecResolveInit /\ [][SpecResolveNext]_vars

SpecBuildInit == BuildInit /\ ResolveIdle /\ DisableIdle /\ ExpandIdle

SpecBuildNext ==
    \/ NewFilterSet
    \/ NestedFilterSet
    \/ ReturnFilterSet
    \/ Clean
    \/ FilterQueryset

SpecBuild == SpecBuildInit /\ [][SpecBuildNext]_vars

SpecDisableInit == DisableInit /\ ResolveIdle /\ BuildIdle /\ ExpandIdle

SpecDisableNext ==
    \/ CallDisableSubset
    \/ CallGetFilterSubset

SpecDisable == SpecDisableInit /\ [][SpecDisableNext]_vars

SpecExpandInit == ExpandInit /\ ResolveIdle /\ BuildIdle /\ DisableIdle

SpecExpandNext == NewClass

SpecExpand == SpecExpandInit /\ [][SpecExpandNext]_vars

====
